---- MODULE Spec2Model ----
(***************************************************************************)
(* A model of easyargs.h: the converters, make_default_args, parse_args    *)
(* and print_help, for a declaration set fixed at compile time.            *)
(*                                                                         *)
(* A C string is a sequence of one-character strings; "text[k]" of the     *)
(* source is text[k+1] here and the terminating '\0' is the position       *)
(* Len(text)+1.  The indices of argv are the C indices (0 .. argc-1).      *)
(***************************************************************************)
EXTENDS Integers, Sequences, FiniteSets, TLC

VARIABLES decl, argc, argv, argv_null, args, pc, i, ret,
          reads, heads, conv, writes, warns, failpos, run, first, out

vars == <<decl, argc, argv, argv_null, args, pc, i, ret,
          reads, heads, conv, writes, warns, failpos, run, first, out>>

-----------------------------------------------------------------------------
(* Values *)

\* the null pointer of a char* field; no C string, as every element of a
\* C string is a single character
NULL == <<"NULL">>

\* the character '\0'
NUL == "NUL"

INT_MAX == 2147483647

INT_MIN == -INT_MAX - 1

-----------------------------------------------------------------------------
(* Converters *)

\* isspace in the C locale (form feed and vertical tab have no TLA+ string)
isspace(c) == c \in {" ", "\t", "\n", "\r"}

RECURSIVE easyargs_skip_leading(_)
easyargs_skip_leading(s) ==
    IF s = NULL THEN s
    ELSE IF s # <<>> /\ isspace(Head(s)) THEN easyargs_skip_leading(Tail(s))
    ELSE s

easyargs_parse_str(text) ==
    IF text = NULL THEN [val |-> NULL, ok |-> 0]
    ELSE IF text = <<>> THEN [val |-> NULL, ok |-> 0]
    ELSE [val |-> text, ok |-> 1]

easyargs_parse_char(text) ==
    IF text = NULL THEN [val |-> NUL, ok |-> 0]
    ELSE IF text = <<>> \/ Len(text) # 1 THEN [val |-> NUL, ok |-> 0]
    ELSE [val |-> text[1], ok |-> 1]

Digits == <<"0", "1", "2", "3", "4", "5", "6", "7", "8", "9",
            "a", "b", "c", "d", "e", "f">>

UpperDigits == <<"0", "1", "2", "3", "4", "5", "6", "7", "8", "9",
                 "A", "B", "C", "D", "E", "F">>

\* the value of c as a digit, or 36 when c is no digit of any base up to 16
DigitVal(c) ==
    IF \E k \in 1..16 : Digits[k] = c
    THEN (CHOOSE k \in 1..16 : Digits[k] = c) - 1
    ELSE IF \E k \in 1..16 : UpperDigits[k] = c
    THEN (CHOOSE k \in 1..16 : UpperDigits[k] = c) - 1
    ELSE 36

\* The digit loop of strtoll from position k of s; acc carries the sign, and
\* a value outside INT_MIN .. INT_MAX is reported as over (the int converter
\* rejects it whether strtoll set ERANGE or its own range test failed).
RECURSIVE ScanDigits(_, _, _, _, _, _)
ScanDigits(s, k, base, neg, acc, over) ==
    IF k > Len(s) \/ DigitVal(s[k]) >= base
    THEN [val |-> acc, end |-> k, over |-> over]
    ELSE LET d == DigitVal(s[k])
             fits == IF neg THEN acc >= (INT_MIN + d + base - 1) \div base
                            ELSE acc <= (INT_MAX - d) \div base
         IN  IF over \/ ~fits
             THEN ScanDigits(s, k + 1, base, neg, acc, TRUE)
             ELSE ScanDigits(s, k + 1, base, neg,
                             IF neg THEN acc * base - d ELSE acc * base + d,
                             FALSE)

\* the index of the first character of s that is not white space
AfterSpace(s) == Len(s) - Len(easyargs_skip_leading(s)) + 1

HasSign(s, n) == n <= Len(s) /\ s[n] \in {"+", "-"}

\* "0x" or "0X" before a hexadecimal digit at position p
HasHexPrefix(s, p) ==
    /\ p + 2 <= Len(s)
    /\ s[p] = "0"
    /\ s[p + 1] \in {"x", "X"}
    /\ DigitVal(s[p + 2]) < 16

\* base 0: the base is read off the prefix
BaseAt(s, p) ==
    IF HasHexPrefix(s, p) THEN 16
    ELSE IF p <= Len(s) /\ s[p] = "0" THEN 8
    ELSE 10

DigitsAt(s, p) == IF HasHexPrefix(s, p) THEN p + 2 ELSE p

\* without a digit nothing is converted: the value is 0 and end is s itself
Converted(r, q) ==
    IF r.end = q THEN [val |-> 0, end |-> 1, over |-> FALSE] ELSE r

StrtollAt(s, p, neg) ==
    Converted(ScanDigits(s, DigitsAt(s, p), BaseAt(s, p), neg, 0, FALSE),
              DigitsAt(s, p))

StrtollSigned(s, n) ==
    IF HasSign(s, n) THEN StrtollAt(s, n + 1, s[n] = "-")
    ELSE StrtollAt(s, n, FALSE)

\* strtoll(s, &end, 0): white space, an optional sign, the base from the
\* prefix, then the digits; end is the position of the first character not
\* converted
strtoll(s) == StrtollSigned(s, AfterSpace(s))

\* the tests of DEFINE_SIGNED_INTEGER_PARSER on strtoll's result r for text t
IntChecked(t, r) ==
    IF r.end # Len(t) + 1 THEN [val |-> 0, ok |-> 0]
    ELSE IF r.over THEN [val |-> 0, ok |-> 0]
    ELSE [val |-> r.val, ok |-> 1]

IntSkipped(t) ==
    IF t = <<>> THEN [val |-> 0, ok |-> 0] ELSE IntChecked(t, strtoll(t))

easyargs_parse_int(text) ==
    IF text = NULL THEN [val |-> 0, ok |-> 0]
    ELSE IntSkipped(easyargs_skip_leading(text))

\* the parser a REQUIRED_*_ARG or OPTIONAL_*_ARG macro passes for its type
parser(type, text) ==
    CASE type = "char*" -> easyargs_parse_str(text)
      [] type = "char"  -> easyargs_parse_char(text)
      [] type = "int"   -> easyargs_parse_int(text)

\* (type) 0
Zero(type) ==
    CASE type = "char*" -> NULL
      [] type = "char"  -> NUL
      [] type = "int"   -> 0

-----------------------------------------------------------------------------
(* Declaration sets: the REQUIRED_ARGS, OPTIONAL_ARGS and BOOLEAN_ARGS lists   *)
(* a program defines before it includes the header.                           *)

\* REQUIRED_<T>_ARG(name, label, description)
Required(type, name, label, description) ==
    [type |-> type, name |-> name, label |-> label, description |-> description]

\* OPTIONAL_<T>_ARG(name, default, flag, label, description)
Optional(type, name, default, flag, label, description) ==
    [type |-> type, name |-> name, default |-> default, flag |-> flag,
     label |-> label, description |-> description]

\* BOOLEAN_ARG(name, flag, description)
Boolean(name, flag, description) ==
    [name |-> name, flag |-> flag, description |-> description]

DeclSet(req, opt, bool) == [req |-> req, opt |-> opt, bool |-> bool]

FlagN == <<"-", "n">>

FlagS == <<"-", "s">>

FlagV == <<"-", "v">>

Anon == <<"a", "n", "o", "n">>

Desc == <<"d">>

\* one required int, one optional string, one boolean
DeclCount ==
    DeclSet(<<Required("int", "count", <<"c", "o", "u", "n", "t">>, Desc)>>,
            <<Optional("char*", "name", Anon, FlagS, <<"n", "a", "m", "e">>, Desc)>>,
            <<Boolean("verbose", FlagV, Desc)>>)

\* no required argument, two optionals, one boolean
DeclOpts ==
    DeclSet(<<>>,
            <<Optional("int", "num", 1, FlagN, <<"n">>, Desc),
              Optional("char*", "name", Anon, FlagS, <<"n", "a", "m", "e">>, Desc)>>,
            <<Boolean("verbose", FlagV, Desc)>>)

\* two required arguments, no optional, two booleans
DeclPair ==
    DeclSet(<<Required("char", "mode", <<"m">>, Desc),
              Required("char*", "file", <<"f", "i", "l", "e">>, Desc)>>,
            <<>>,
            <<Boolean("verbose", FlagV, Desc), Boolean("strict", FlagS, Desc)>>)

\* one required string, one optional char, no boolean
DeclChar ==
    DeclSet(<<Required("char*", "file", <<"f", "i", "l", "e">>, Desc)>>,
            <<Optional("char", "sep", ",", FlagS, <<"c">>, Desc)>>,
            <<>>)

DeclSets == {DeclCount, DeclOpts, DeclPair, DeclChar}

REQUIRED_ARG_COUNT == Len(decl.req)

OPTIONAL_ARG_COUNT == Len(decl.opt)

BOOLEAN_ARG_COUNT == Len(decl.bool)

\* the members of args_t
Fields(d) ==
    {d.req[k].name : k \in 1..Len(d.req)} \cup
    {d.opt[k].name : k \in 1..Len(d.opt)} \cup
    {d.bool[k].name : k \in 1..Len(d.bool)}

\* make_default_args with every member zeroed, the defaults left out
make_default_args_Zeroed(d) ==
    [n \in Fields(d) |->
        IF \E k \in 1..Len(d.req) : d.req[k].name = n
        THEN Zero((CHOOSE r \in {d.req[k] : k \in 1..Len(d.req)} : r.name = n).type)
        ELSE IF \E k \in 1..Len(d.opt) : d.opt[k].name = n
        THEN Zero((CHOOSE o \in {d.opt[k] : k \in 1..Len(d.opt)} : o.name = n).type)
        ELSE 0]

make_default_args(d) ==
    [n \in Fields(d) |->
        IF \E k \in 1..Len(d.req) : d.req[k].name = n
        THEN Zero((CHOOSE r \in {d.req[k] : k \in 1..Len(d.req)} : r.name = n).type)
        ELSE IF \E k \in 1..Len(d.opt) : d.opt[k].name = n
        THEN (CHOOSE o \in {d.opt[k] : k \in 1..Len(d.opt)} : o.name = n).default
        ELSE 0]

-----------------------------------------------------------------------------
(* The caller's argument vector *)

MaxArgc == 5

Prog == <<"p">>

\* the tokens a user may type
Tokens == {<<>>, <<"7">>, <<"0", "x", "1", "f">>, <<"a", "b">>, FlagN, FlagS, FlagV}

RECURSIVE Argvs(_)
Argvs(n) ==
    IF n = 0 THEN {<<>>}
    ELSE IF n = 1 THEN {<<Prog>>}
    ELSE {Append(a, t) : a \in Argvs(n - 1), t \in Tokens}

\* argv[j]; the array ends with a null pointer at argv[argc]
Arg(j) == IF j < argc THEN argv[j + 1] ELSE NULL

-----------------------------------------------------------------------------
(* parse_args *)

\* The locals and the container of a running parse_args, with what the call
\* has done so far: the argv indices it read, the converter calls, the
\* members written, the warnings, and the index at which it failed (-1: it
\* has not failed; 0: at the checks on entry).  heads, kept by LoopStep, lists
\* the indices at which an iteration of the loop started.
\* ctl is what the expansion of a descriptor macro in the loop body did:
\* "next" (fell through), "continue" or "return".
Frame ==
    [args |-> args, i |-> i, ctl |-> "next", reads |-> reads, conv |-> conv,
     writes |-> writes, warns |-> warns, failpos |-> failpos]

\* strcmp(argv[i], flag), and any other read of argv[j]
Read(st, j) == [st EXCEPT !.reads = Append(st.reads, j)]

\* Convert without "if (!ok) return 0;"
Convert_NoReturn(d, st, j, r, ctl) ==
    [st EXCEPT !.args = [st.args EXCEPT ![d.name] = r.val],
               !.i = j,
               !.reads = Append(st.reads, j),
               !.conv = Append(st.conv, [pos |-> j, name |-> d.name, ok |-> r.ok]),
               !.writes = Append(st.writes, [pos |-> j, name |-> d.name]),
               !.ctl = ctl,
               !.failpos = IF r.ok = 0 THEN j ELSE st.failpos]

\* ok = 0; args->name = (type) parser(argv[j], &ok); if (!ok) return 0;
\* with r the parser's result and ctl what follows when ok is set
Convert(d, st, j, r, ctl) ==
    [st EXCEPT !.args = [st.args EXCEPT ![d.name] = r.val],
               !.i = j,
               !.reads = Append(st.reads, j),
               !.conv = Append(st.conv, [pos |-> j, name |-> d.name, ok |-> r.ok]),
               !.writes = Append(st.writes, [pos |-> j, name |-> d.name]),
               !.ctl = IF r.ok = 0 THEN "return" ELSE ctl,
               !.failpos = IF r.ok = 0 THEN j ELSE st.failpos]

\* i++
Incr(st) == [st EXCEPT !.i = st.i + 1]

\* REQUIRED_ARG reading argv[i - 1]: the positions counted from argv[0]
REQUIRED_ARG_PrevToken(d, st) ==
    Incr(Convert(d, st, st.i, parser(d.type, Arg(st.i - 1)), "next"))

\* one member of REQUIRED_ARGS as parse_args expands it: argv[i++]
REQUIRED_ARG(d, st) ==
    Incr(Convert(d, st, st.i, parser(d.type, Arg(st.i)), "next"))

\* OptionalValue reading argv[i + 1] where the source reads argv[++i]
OptionalValue_NoAdvance(d, st) ==
    IF st.i + 1 >= argc
    THEN [st EXCEPT !.ctl = "return", !.failpos = st.i]
    ELSE [Convert(d, st, st.i + 1, parser(d.type, Arg(st.i + 1)), "continue")
             EXCEPT !.i = st.i]

\* OptionalValue without the test i + 1 >= argc
OptionalValue_NoBoundsCheck(d, st) ==
    Convert(d, st, st.i + 1, parser(d.type, Arg(st.i + 1)), "continue")

\* if (i + 1 >= argc) return 0; ... parser(argv[++i], &ok) ... continue;
OptionalValue(d, st) ==
    IF st.i + 1 >= argc
    THEN [st EXCEPT !.ctl = "return", !.failpos = st.i]
    ELSE Convert(d, st, st.i + 1, parser(d.type, Arg(st.i + 1)), "continue")

\* one member of OPTIONAL_ARGS as the loop body expands it
OPTIONAL_ARG(d, st) ==
    IF Arg(st.i) # d.flag THEN Read(st, st.i)
    ELSE OptionalValue(d, Read(st, st.i))

\* BooleanSet flipping the member: args->name = !args->name
BooleanSet_Toggle(d, st) ==
    [st EXCEPT !.args = [st.args EXCEPT ![d.name] = 1 - st.args[d.name]],
               !.writes = Append(st.writes, [pos |-> st.i, name |-> d.name]),
               !.ctl = "continue"]

\* BooleanSet stepping over the next token as if the flag took a value
BooleanSet_SkipsNext(d, st) ==
    [st EXCEPT !.args = [st.args EXCEPT ![d.name] = 1],
               !.i = st.i + 1,
               !.writes = Append(st.writes, [pos |-> st.i, name |-> d.name]),
               !.ctl = "continue"]

\* args->name = 1; continue;
BooleanSet(d, st) ==
    [st EXCEPT !.args = [st.args EXCEPT ![d.name] = 1],
               !.writes = Append(st.writes, [pos |-> st.i, name |-> d.name]),
               !.ctl = "continue"]

\* one member of BOOLEAN_ARGS as the loop body expands it
BOOLEAN_ARG(d, st) ==
    IF Arg(st.i) # d.flag THEN Read(st, st.i)
    ELSE BooleanSet(d, Read(st, st.i))

\* Warning as an error: the unmatched token ends the call with 0
Warning_Fatal(st) ==
    [st EXCEPT !.reads = Append(st.reads, st.i),
               !.warns = Append(st.warns, st.i),
               !.ctl = "return",
               !.failpos = st.i]

\* the fprintf that ends the loop body
Warning(st) ==
    [st EXCEPT !.reads = Append(st.reads, st.i),
               !.warns = Append(st.warns, st.i)]

\* OPTIONAL_ARGS in the loop body: its members in order, until one of them
\* continues or returns
OPTIONAL_ARGS(st) ==
    LET after[k \in 0..OPTIONAL_ARG_COUNT] ==
            IF k = 0 THEN st
            ELSE IF after[k - 1].ctl # "next" THEN after[k - 1]
            ELSE OPTIONAL_ARG(decl.opt[k], after[k - 1])
    IN  after[OPTIONAL_ARG_COUNT]

BOOLEAN_ARGS(st) ==
    LET after[k \in 0..BOOLEAN_ARG_COUNT] ==
            IF k = 0 THEN st
            ELSE IF after[k - 1].ctl # "next" THEN after[k - 1]
            ELSE BOOLEAN_ARG(decl.bool[k], after[k - 1])
    IN  after[BOOLEAN_ARG_COUNT]

\* the fprintf is reached when no member continued or returned
Unmatched(st) == IF st.ctl = "next" THEN Warning(st) ELSE st

\* the body of the for loop
LoopBody(st) == Unmatched(BOOLEAN_ARGS(OPTIONAL_ARGS(st)))

\* the frame becomes the state; a return from the frame ends the call
Store(st, nextpc, r) ==
    /\ args' = st.args
    /\ i' = st.i
    /\ reads' = st.reads
    /\ conv' = st.conv
    /\ writes' = st.writes
    /\ warns' = st.warns
    /\ failpos' = st.failpos
    /\ pc' = nextpc
    /\ ret' = r

\* the checks on entry
Call ==
    /\ pc = "start"
    /\ IF argc = 0 \/ argv_null
       THEN Store([Frame EXCEPT !.failpos = 0], "done", 0)
       ELSE IF argc < 1 + REQUIRED_ARG_COUNT
       THEN Store([Frame EXCEPT !.failpos = 0], "done", 0)
       ELSE Store([Frame EXCEPT !.i = 1],
                  IF REQUIRED_ARG_COUNT > 0 THEN "required" ELSE "loop", ret)
    /\ UNCHANGED <<decl, argc, argv, argv_null, heads, run, first, out>>

\* a frame that returned ends the call with 0; any other goes on at nextpc
Step(st, nextpc) ==
    IF st.ctl = "return" THEN Store(st, "done", 0)
    ELSE Store(st, nextpc, ret)

\* the next required argument
ReqStep ==
    /\ pc = "required"
    /\ Step(REQUIRED_ARG(decl.req[i], Frame),
            IF i + 1 > REQUIRED_ARG_COUNT THEN "loop" ELSE "required")
    /\ UNCHANGED <<decl, argc, argv, argv_null, heads, run, first, out>>

\* the i++ of the for statement, which a return does not reach
ForIncr(st) == IF st.ctl = "return" THEN st ELSE Incr(st)

\* one iteration of the for loop
LoopStep ==
    /\ pc = "loop"
    /\ i < argc
    /\ heads' = Append(heads, i)
    /\ Step(ForIncr(LoopBody(Frame)), "loop")
    /\ UNCHANGED <<decl, argc, argv, argv_null, run, first, out>>

\* the loop ends and parse_args returns 1
Return ==
    /\ pc = "loop"
    /\ i >= argc
    /\ pc' = "done"
    /\ ret' = 1
    /\ UNCHANGED <<decl, argc, argv, argv_null, args, i, reads, heads, conv,
                   writes, warns, failpos, run, first, out>>

-----------------------------------------------------------------------------
(* print_help *)

\* the string of n spaces that "%*s" prints for the empty string; a negative
\* width asks for left justification in a field of -n
Padding(n) == [k \in 1..(IF n < 0 THEN -n ELSE n) |-> " "]

\* "%d" of a default
RECURSIVE Decimal(_)
Decimal(n) ==
    IF n < 0 THEN <<"-">> \o Decimal(-n)
    ELSE IF n < 10 THEN <<Digits[n + 1]>>
    ELSE Decimal(n \div 10) \o <<Digits[(n % 10) + 1]>>

\* the default of an optional printed with the formatter of its macro
Formatted(d) ==
    CASE d.type = "char*" -> d.default
      [] d.type = "char"  -> <<d.default>>
      [] d.type = "int"   -> Decimal(d.default)

\* "<" label "> "
UsageRequired(d) == <<"<">> \o d.label \o <<">", " ">>

\* "[" flag " <" label ">" "] "
UsageOptional(d) ==
    <<"[">> \o d.flag \o <<" ", "<">> \o d.label \o <<">">> \o <<"]", " ">>

\* "[" flag "] "
UsageBoolean(d) == <<"[">> \o d.flag \o <<"]", " ">>

\* the string literal REQUIRED_ARGS expands to in the usage section
UsageRequiredArgs ==
    LET cat[k \in 0..REQUIRED_ARG_COUNT] ==
            IF k = 0 THEN <<>> ELSE cat[k - 1] \o UsageRequired(decl.req[k])
    IN  cat[REQUIRED_ARG_COUNT]

UsageOptionalArgs ==
    LET cat[k \in 0..OPTIONAL_ARG_COUNT] ==
            IF k = 0 THEN <<>> ELSE cat[k - 1] \o UsageOptional(decl.opt[k])
    IN  cat[OPTIONAL_ARG_COUNT]

UsageBooleanArgs ==
    LET cat[k \in 0..BOOLEAN_ARG_COUNT] ==
            IF k = 0 THEN <<>> ELSE cat[k - 1] \o UsageBoolean(decl.bool[k])
    IN  cat[BOOLEAN_ARG_COUNT]

\* the first part of the usage line; nothing when REQUIRED_ARGS is not defined
UsageArguments ==
    IF REQUIRED_ARG_COUNT = 0 THEN <<>>
    ELSE IF REQUIRED_ARG_COUNT > 0 /\ REQUIRED_ARG_COUNT <= 3
    THEN UsageRequiredArgs
    ELSE <<"<", "A", "R", "G", "U", "M", "E", "N", "T", "S", ">">> \o <<" ">>

\* UsageOptions with the threshold one too low
UsageOptions_Below3 ==
    IF OPTIONAL_ARG_COUNT + BOOLEAN_ARG_COUNT < 3
    THEN UsageOptionalArgs \o UsageBooleanArgs
    ELSE <<"[", "O", "P", "T", "I", "O", "N", "S", "]">>

UsageOptions ==
    IF OPTIONAL_ARG_COUNT + BOOLEAN_ARG_COUNT <= 3
    THEN UsageOptionalArgs \o UsageBooleanArgs
    ELSE <<"[", "O", "P", "T", "I", "O", "N", "S", "]">>

\* the line printed after "USAGE:", without its line end
Usage(exec_alias) ==
    <<" ", " ", " ", " ">> \o exec_alias \o <<" ">> \o UsageArguments \o UsageOptions

\* { int len = ...; if (len > max_width) max_width = len; }
Widen(len, max_width) == IF len > max_width THEN len ELSE max_width

RequiredWidth(d) == Len(d.label) + 2

\* OptionalWidth without the space between flag and label
OptionalWidth_NoSpace(d) == Len(d.flag) + Len(d.label) + 2

OptionalWidth(d) == Len(d.flag) + 1 + Len(d.label) + 2

BooleanWidth(d) == Len(d.flag)

\* max_width after the three groups
MaxWidthRequired ==
    LET w[k \in 0..REQUIRED_ARG_COUNT] ==
            IF k = 0 THEN 0 ELSE Widen(RequiredWidth(decl.req[k]), w[k - 1])
    IN  w[REQUIRED_ARG_COUNT]

MaxWidthOptional ==
    LET w[k \in 0..OPTIONAL_ARG_COUNT] ==
            IF k = 0 THEN MaxWidthRequired
            ELSE Widen(OptionalWidth(decl.opt[k]), w[k - 1])
    IN  w[OPTIONAL_ARG_COUNT]

MaxWidth ==
    LET w[k \in 0..BOOLEAN_ARG_COUNT] ==
            IF k = 0 THEN MaxWidthOptional
            ELSE Widen(BooleanWidth(decl.bool[k]), w[k - 1])
    IN  w[BOOLEAN_ARG_COUNT]

\* a line of a section: what is printed before the description, the width
\* given to "%*s", and the column at which the description starts
Line(sec, before, pad, rest) ==
    [sec |-> sec, pad |-> pad,
     col |-> Len(before \o Padding(pad) \o <<" ", " ", " ", " ">>),
     text |-> before \o Padding(pad) \o <<" ", " ", " ", " ">> \o rest]

\* "    <" label ">%*s    " description
RequiredLine(d, max_width) ==
    Line("ARGUMENTS", <<" ", " ", " ", " ", "<">> \o d.label \o <<">">>,
         max_width - Len(d.label) - 2, d.description)

\* "    " flag " <" label ">%*s    " description " (default: " formatter ")"
OptionalLine(d, max_width) ==
    Line("OPTIONS",
         <<" ", " ", " ", " ">> \o d.flag \o <<" ", "<">> \o d.label \o <<">">>,
         max_width - Len(d.label) - Len(d.flag) - 3,
         d.description \o <<" ", "(", "d", "e", "f", "a", "u", "l", "t", ":", " ">> \o Formatted(d) \o <<")">>)

\* "    " flag "%*s    " description
BooleanLine(d, max_width) ==
    Line("OPTIONS", <<" ", " ", " ", " ">> \o d.flag,
         max_width - Len(d.flag), d.description)

\* the lines of the ARGUMENTS and OPTIONS sections, in the order printed
Lines(max_width) ==
    [k \in 1..REQUIRED_ARG_COUNT |-> RequiredLine(decl.req[k], max_width)]
    \o [k \in 1..OPTIONAL_ARG_COUNT |-> OptionalLine(decl.opt[k], max_width)]
    \o [k \in 1..BOOLEAN_ARG_COUNT |-> BooleanLine(decl.bool[k], max_width)]

\* the section headers printed
Headers ==
    <<"USAGE">>
    \o (IF REQUIRED_ARG_COUNT > 0 THEN <<"ARGUMENTS">> ELSE <<>>)
    \o (IF OPTIONAL_ARG_COUNT > 0 \/ BOOLEAN_ARG_COUNT > 0 THEN <<"OPTIONS">> ELSE <<>>)

print_help(exec_alias) ==
    [headers |-> Headers, usage |-> Usage(exec_alias),
     max_width |-> MaxWidth, lines |-> Lines(MaxWidth)]

NoOut == [headers |-> <<>>, usage |-> <<>>, max_width |-> 0, lines |-> <<>>]

Init ==
    /\ decl \in DeclSets
    /\ argv_null \in BOOLEAN
    /\ argc \in 0..MaxArgc
    /\ argv \in IF argv_null THEN {<<>>} ELSE Argvs(argc)
    /\ args = make_default_args(decl)
    /\ pc = "start"
    /\ i = 0
    /\ ret = -1
    /\ reads = <<>>
    /\ heads = <<>>
    /\ conv = <<>>
    /\ writes = <<>>
    /\ warns = <<>>
    /\ failpos = -1
    /\ run = 1
    /\ first = [ret |-> -1, args |-> make_default_args(decl), argv |-> <<>>]
    /\ out = NoOut

-----------------------------------------------------------------------------
(* A second call with the flags in another order *)

IsOptionalFlag(t) == \E k \in 1..OPTIONAL_ARG_COUNT : decl.opt[k].flag = t

IsBooleanFlag(t) == \E k \in 1..BOOLEAN_ARG_COUNT : decl.bool[k].flag = t

\* argv from index j on as a list of groups, each an optional flag with the
\* token after it or a boolean flag alone; ok is FALSE when it is no such list
RECURSIVE Groups(_)
Groups(j) ==
    IF j >= argc THEN [ok |-> TRUE, units |-> <<>>]
    ELSE IF IsOptionalFlag(Arg(j)) /\ j + 1 < argc
    THEN LET g == Groups(j + 2)
         IN  [ok |-> g.ok, units |-> <<(<<Arg(j), Arg(j + 1)>>)>> \o g.units]
    ELSE IF IsBooleanFlag(Arg(j)) /\ ~IsOptionalFlag(Arg(j))
    THEN LET g == Groups(j + 1)
         IN  [ok |-> g.ok, units |-> <<(<<Arg(j)>>)>> \o g.units]
    ELSE [ok |-> FALSE, units |-> <<>>]

RECURSIVE Flatten(_)
Flatten(us) == IF us = <<>> THEN <<>> ELSE Head(us) \o Flatten(Tail(us))

Perms(n) == {p \in [1..n -> 1..n] : \A a, b \in 1..n : p[a] = p[b] => a = b}

\* The caller keeps the outcome of the first call, builds a new default
\* container and calls parse_args again with the same required tokens and the
\* flag groups in another order.
Again ==
    /\ pc = "done"
    /\ run = 1
    /\ ~argv_null
    /\ argc >= 1 + REQUIRED_ARG_COUNT
    /\ LET g == Groups(1 + REQUIRED_ARG_COUNT)
           n == Len(g.units)
       IN  /\ g.ok
           /\ n >= 2
           /\ \E p \in Perms(n) :
                 /\ \E k \in 1..n : p[k] # k
                 /\ argv' = SubSeq(argv, 1, 1 + REQUIRED_ARG_COUNT)
                            \o Flatten([k \in 1..n |-> g.units[p[k]]])
    /\ first' = [ret |-> ret, args |-> args, argv |-> argv]
    /\ run' = 2
    /\ args' = make_default_args(decl)
    /\ pc' = "start"
    /\ i' = 0
    /\ ret' = -1
    /\ reads' = <<>>
    /\ heads' = <<>>
    /\ conv' = <<>>
    /\ writes' = <<>>
    /\ warns' = <<>>
    /\ failpos' = -1
    /\ UNCHANGED <<decl, argc, argv_null, out>>

Next == Call \/ ReqStep \/ LoopStep \/ Return \/ Again

Spec == Init /\ [][Next]_vars

-----------------------------------------------------------------------------
(* Help for a range of declaration sets *)

\* the declaration sets help is printed for
MaxHelpRequired == 4

Labels == {<<"n">>, <<"f", "i", "l", "e">>}

RECURSIVE LabelLists(_)
LabelLists(n) ==
    IF n = 0 THEN {<<>>}
    ELSE LabelLists(n - 1) \cup
         {Append(l, x) : l \in {m \in LabelLists(n - 1) : Len(m) = n - 1}, x \in Labels}

HelpRequired ==
    {[k \in 1..Len(l) |-> Required("int", ToString(k), l[k], Desc)] :
        l \in LabelLists(MaxHelpRequired)}

OptNum == Optional("int", "num", 10, FlagN, <<"n">>, Desc)

OptName ==
    Optional("char*", "name", Anon, <<"-", "-", "n", "a", "m", "e">>,
             <<"n", "a", "m", "e">>, Desc)

BoolV == Boolean("verbose", FlagV, Desc)

BoolLong ==
    Boolean("recursive", <<"-", "-", "r", "e", "c", "u", "r", "s", "i", "v", "e">>, Desc)

HelpOptional == {<<>>, <<OptNum>>, <<OptName>>, <<OptNum, OptName>>, <<OptName, OptNum>>}

HelpBoolean == {<<>>, <<BoolV>>, <<BoolLong>>, <<BoolV, BoolLong>>, <<BoolLong, BoolV>>}

HelpDecls ==
    {DeclSet(r, o, b) : r \in HelpRequired, o \in HelpOptional, b \in HelpBoolean}

Aliases == {Prog, <<".", "/", "a">>}

PrintHelp ==
    /\ pc = "help"
    /\ \E exec_alias \in Aliases : out' = print_help(exec_alias)
    /\ pc' = "printed"
    /\ UNCHANGED <<decl, argc, argv, argv_null, args, i, ret, reads, heads,
                   conv, writes, warns, failpos, run, first>>

HelpInit ==
    /\ decl \in HelpDecls
    /\ argv_null = TRUE
    /\ argc = 0
    /\ argv = <<>>
    /\ args = make_default_args(decl)
    /\ pc = "help"
    /\ i = 0
    /\ ret = -1
    /\ reads = <<>>
    /\ heads = <<>>
    /\ conv = <<>>
    /\ writes = <<>>
    /\ warns = <<>>
    /\ failpos = -1
    /\ run = 1
    /\ first = [ret |-> -1, args |-> make_default_args(decl), argv |-> <<>>]
    /\ out = NoOut

HelpNext == PrintHelp

HelpSpec == HelpInit /\ [][HelpNext]_vars

-----------------------------------------------------------------------------
(* Properties *)

Range(s) == {s[k] : k \in DOMAIN s}

\* the call got past the checks on entry
Entered == ~argv_null /\ argc >= 1 + REQUIRED_ARG_COUNT

\* the converter of the k-th required descriptor accepts argv[k]
RequiredAccepted(k) == parser(decl.req[k].type, Arg(k)).ok = 1

\* the flag is no token of argv[1 .. argc-1]
Omitted(flag) == \A j \in 1..(argc - 1) : Arg(j) # flag

\* C1: when argc = 1 + R and every required token is accepted by the converter
\* of its descriptor, parse_args returns 1 and the k-th required member is the
\* value that converter returns for argv[k].
C1_RequiredInOrder ==
    (/\ pc = "done"
     /\ ~argv_null
     /\ argc = 1 + REQUIRED_ARG_COUNT
     /\ \A k \in 1..REQUIRED_ARG_COUNT : RequiredAccepted(k))
    => /\ ret = 1
       /\ \A k \in 1..REQUIRED_ARG_COUNT :
             args[decl.req[k].name] = parser(decl.req[k].type, Arg(k)).val

C1_Witness ==
    /\ pc = "done"
    /\ ret = 1
    /\ REQUIRED_ARG_COUNT = 2
    /\ argc = 3
    /\ Arg(1) # Arg(2)
    /\ args[decl.req[1].name] = "7"
    /\ args[decl.req[2].name] = <<"a", "b">>

\* C2: after a successful parse_args on the container of make_default_args,
\* every optional whose flag is no token of argv holds its declared default.
C2_OmittedDefault ==
    (pc = "done" /\ ret = 1)
    => \A k \in 1..OPTIONAL_ARG_COUNT :
          Omitted(decl.opt[k].flag) => args[decl.opt[k].name] = decl.opt[k].default

C2_Witness ==
    /\ pc = "done"
    /\ ret = 1
    /\ OPTIONAL_ARG_COUNT = 2
    /\ Omitted(decl.opt[2].flag)
    /\ ~Omitted(decl.opt[1].flag)
    /\ args[decl.opt[1].name] = 7
    /\ args[decl.opt[2].name] = Anon

\* C3, as stated: after a successful parse_args every boolean is false when
\* its flag is omitted and true when its flag is a token anywhere in argv.
C3_PresentAnywhere ==
    (pc = "done" /\ ret = 1)
    => \A k \in 1..BOOLEAN_ARG_COUNT :
          /\ Omitted(decl.bool[k].flag) => args[decl.bool[k].name] = 0
          /\ ~Omitted(decl.bool[k].flag) => args[decl.bool[k].name] = 1

\* C3, amended: after a successful parse_args every boolean is false when its
\* flag is omitted and true when its flag stands at an index at which an
\* iteration of the loop started, that is after the required tokens and not as
\* the value of an optional flag before it.
C3_PresentAtHead ==
    (pc = "done" /\ ret = 1)
    => \A k \in 1..BOOLEAN_ARG_COUNT :
          /\ Omitted(decl.bool[k].flag) => args[decl.bool[k].name] = 0
          /\ (\E j \in Range(heads) : Arg(j) = decl.bool[k].flag)
                => args[decl.bool[k].name] = 1

C3_Witness ==
    /\ pc = "done"
    /\ ret = 1
    /\ BOOLEAN_ARG_COUNT = 2
    /\ Len(heads) = 2
    /\ Arg(heads[1]) = decl.bool[2].flag
    /\ Arg(heads[2]) = decl.bool[1].flag
    /\ args[decl.bool[1].name] = 1
    /\ args[decl.bool[2].name] = 1

\* the flag groups of the argv of the second call
SecondGroups == Groups(1 + REQUIRED_ARG_COUNT).units

\* no optional flag stands in two groups with different value tokens
NoConflict ==
    \A a, b \in 1..Len(SecondGroups) :
        (/\ Len(SecondGroups[a]) = 2
         /\ Len(SecondGroups[b]) = 2
         /\ SecondGroups[a][1] = SecondGroups[b][1])
        => SecondGroups[a][2] = SecondGroups[b][2]

\* C4, as stated: two calls whose argv differ only in the order of the flag
\* groups after the required tokens return the same outcome and leave equal
\* containers.
C4_OrderIndependent ==
    (pc = "done" /\ run = 2) => (ret = first.ret /\ args = first.args)

\* C4, amended: the two calls return the same outcome, and when that outcome
\* is success and no optional flag stands in two groups with different value
\* tokens they leave equal containers.
C4_OrderIndependentOnSuccess ==
    (pc = "done" /\ run = 2)
    => /\ ret = first.ret
       /\ (ret = 1 /\ NoConflict) => args = first.args

C4_Witness ==
    /\ pc = "done"
    /\ run = 2
    /\ ret = 1
    /\ argv # first.argv
    /\ Len(SecondGroups) = 2
    /\ NoConflict
    /\ \A k \in 1..OPTIONAL_ARG_COUNT : args[decl.opt[k].name] # decl.opt[k].default
    /\ args = first.args

\* an iteration of the loop that started at j met an optional flag without a
\* value after it, or with a value its converter rejects
OptionalFails(j) ==
    \E k \in 1..OPTIONAL_ARG_COUNT :
        /\ Arg(j) = decl.opt[k].flag
        /\ \A m \in 1..(k - 1) : Arg(j) # decl.opt[m].flag
        /\ \/ j = argc - 1
           \/ parser(decl.opt[k].type, Arg(j + 1)).ok = 0

\* C5: parse_args returns 0 exactly when argv is absent, argc < 1 + R, a
\* required token is rejected by its converter, or the loop meets an optional
\* flag that is the last token or whose next token its converter rejects; a
\* token that matches no flag never makes it return 0.
C5_FailureExactly ==
    (pc = "done")
    => /\ ret \in {0, 1}
       /\ ret = 0 <=>
             IF ~Entered THEN TRUE
             ELSE \/ \E k \in 1..REQUIRED_ARG_COUNT : ~RequiredAccepted(k)
                  \/ \E j \in Range(heads) : OptionalFails(j)
       /\ ret = 0 => failpos \notin Range(warns)

C5_Witness ==
    /\ pc = "done"
    /\ ret = 1
    /\ Len(warns) = 2
    /\ warns[1] < argc - 1
    /\ \E k \in 1..BOOLEAN_ARG_COUNT :
          /\ Arg(argc - 1) = decl.bool[k].flag
          /\ args[decl.bool[k].name] = 1

\* C6: once parse_args has failed at index k it has returned 0, and it has
\* read no token, called no converter, written no member and warned about no
\* token at an index after k.
C6_AbortAtFirstFailure ==
    (failpos # -1)
    => /\ pc = "done"
       /\ ret = 0
       /\ \A j \in Range(reads) : j <= failpos
       /\ \A c \in Range(conv) : c.pos <= failpos
       /\ \A w \in Range(writes) : w.pos <= failpos
       /\ \A j \in Range(warns) : j < failpos
       /\ \A j \in Range(heads) : j <= failpos

C6_Witness ==
    /\ pc = "done"
    /\ ret = 0
    /\ failpos >= 1
    /\ failpos + 2 < argc
    /\ \E k \in 1..BOOLEAN_ARG_COUNT :
          /\ Arg(failpos + 1) = decl.bool[k].flag
          /\ args[decl.bool[k].name] = 0
    /\ ~IsOptionalFlag(Arg(failpos + 2))
    /\ ~IsBooleanFlag(Arg(failpos + 2))
    /\ warns = <<>>

\* the required part and the option part of the usage line, as the claim
\* words them
InlineRequired == Flatten([k \in 1..REQUIRED_ARG_COUNT |->
                              <<"<">> \o decl.req[k].label \o <<">", " ">>])

InlineOptions ==
    Flatten([k \in 1..OPTIONAL_ARG_COUNT |->
                <<"[">> \o decl.opt[k].flag \o <<" ", "<">> \o decl.opt[k].label
                \o <<">", "]", " ">>])
    \o Flatten([k \in 1..BOOLEAN_ARG_COUNT |->
                   <<"[">> \o decl.bool[k].flag \o <<"]", " ">>])

Widths ==
    {Len(decl.req[k].label) + 2 : k \in 1..REQUIRED_ARG_COUNT}
    \cup {Len(decl.opt[k].flag) + 1 + Len(decl.opt[k].label) + 2 :
             k \in 1..OPTIONAL_ARG_COUNT}
    \cup {Len(decl.bool[k].flag) : k \in 1..BOOLEAN_ARG_COUNT}

\* C8: the column width is the maximum over all descriptors of len(label)+2
\* (required), len(flag)+1+len(label)+2 (optional) and len(flag) (boolean);
\* with it the padding of every ARGUMENTS and OPTIONS line is non-negative and
\* every description starts at column 4 + width + 4.
C8_AlignedColumns ==
    (pc = "printed")
    => /\ \A w \in Widths : out.max_width >= w
       /\ out.max_width \in Widths \cup {0}
       /\ Len(out.lines) = REQUIRED_ARG_COUNT + OPTIONAL_ARG_COUNT + BOOLEAN_ARG_COUNT
       /\ \A k \in 1..Len(out.lines) :
             /\ out.lines[k].pad >= 0
             /\ out.lines[k].col = 4 + out.max_width + 4

C8_Witness ==
    /\ pc = "printed"
    /\ REQUIRED_ARG_COUNT >= 1
    /\ OPTIONAL_ARG_COUNT >= 1
    /\ BOOLEAN_ARG_COUNT = 2
    /\ out.max_width = Len(decl.bool[2].flag)
    /\ out.lines[1].pad > 0
    /\ out.lines[Len(out.lines)].pad = 0

\* the index of the first optional descriptor whose flag is the token t
OptionalOf(t) ==
    CHOOSE k \in 1..OPTIONAL_ARG_COUNT :
        /\ decl.opt[k].flag = t
        /\ \A m \in 1..(k - 1) : decl.opt[m].flag # t

\* the converter of the optional flag at index j accepts argv[j+1]
ValueAccepted(j) == parser(decl.opt[OptionalOf(Arg(j))].type, Arg(j + 1)).ok = 1

\* C9: when an iteration of the loop starts at an optional flag at index j and
\* argv[j+1] exists, argv[j+1] is passed to that descriptor's converter and its
\* result written to that member whatever the token is, no iteration starts at
\* j+1 (so the token sets no boolean and matches no flag), and the loop goes
\* on at j+2; a token the converter rejects ends the call at j+1.
C9_ValueTakenAtFaceValue ==
    \A n \in 1..Len(heads) :
        (IsOptionalFlag(Arg(heads[n])) /\ heads[n] + 1 < argc)
        => /\ \E c \in Range(conv) :
                 /\ c.pos = heads[n] + 1
                 /\ c.name = decl.opt[OptionalOf(Arg(heads[n]))].name
                 /\ c.ok = parser(decl.opt[OptionalOf(Arg(heads[n]))].type,
                                  Arg(heads[n] + 1)).ok
           /\ \A w \in Range(writes) :
                 w.pos = heads[n] + 1
                 => w.name = decl.opt[OptionalOf(Arg(heads[n]))].name
           /\ heads[n] + 1 \notin Range(heads)
           /\ heads[n] + 1 \notin Range(warns)
           /\ n < Len(heads) => heads[n + 1] = heads[n] + 2
           /\ (n = Len(heads) /\ ValueAccepted(heads[n])) => i = heads[n] + 2
           /\ (n = Len(heads) /\ ~ValueAccepted(heads[n]))
                 => (pc = "done" /\ ret = 0 /\ failpos = heads[n] + 1)

C9_Witness ==
    /\ pc = "done"
    /\ ret = 1
    /\ Len(heads) = 2
    /\ IsOptionalFlag(Arg(heads[1]))
    /\ IsBooleanFlag(Arg(heads[1] + 1))
    /\ args[decl.opt[OptionalOf(Arg(heads[1]))].name] = FlagV
    /\ \E k \in 1..BOOLEAN_ARG_COUNT :
          /\ decl.bool[k].flag = FlagV
          /\ args[decl.bool[k].name] = 0

\* the indices at which parse_args took a token up: as a required argument,
\* at the start of an iteration, or as the value of an optional flag
Examined == heads \o [k \in 1..Len(conv) |-> conv[k].pos]

\* the call is at a step it can take: the checks on entry, a required
\* descriptor that exists, or the test of the loop (which either runs the body
\* or ends the loop)
AtStep ==
    \/ pc = "start"
    \/ (pc = "required" /\ i \in 1..REQUIRED_ARG_COUNT)
    \/ pc = "loop"

\* C10: parse_args reads argv[j] only for 1 <= j <= argc-1, its index only
\* grows so that no token is taken up twice, and every call returns 0 or 1:
\* a call that has not returned is at a step whose guard holds (the entry
\* checks, a required descriptor that exists, or the loop's test), every step
\* moves the index forward, and the index never passes argc.
C10_ReadsInBoundsAndTerminates ==
    /\ [](\A j \in Range(reads) : 1 <= j /\ j <= argc - 1)
    /\ [](Cardinality(Range(Examined)) = Len(Examined))
    /\ [](pc # "done" => AtStep)
    /\ [](pc \in {"required", "loop"} => (1 <= i /\ i <= argc))
    /\ [][(pc \in {"required", "loop"} /\ pc' \in {"required", "loop"}) => (i' > i)]_vars
    /\ [][(pc \in {"required", "loop"}) => (pc' \in {"required", "loop", "done"})]_vars
    /\ [][(pc = "loop") => (pc' # "required")]_vars
    /\ [](pc = "done" => ret \in {0, 1})

C10_Witness ==
    /\ pc = "done"
    /\ ret = 0
    /\ argc = MaxArgc
    /\ Len(heads) >= 2
    /\ heads[Len(heads)] = argc - 1
    /\ IsOptionalFlag(Arg(argc - 1))
    /\ reads[Len(reads)] = argc - 1

====
